---------------------------- MODULE Spec2Model ----------------------------
(***************************************************************************)
(* A model of the lookup importers of .claude-work/import-scripts.py       *)
(* (class LookupImporter: three import routines, the database sink and the *)
(* JSON review file) and of the country mapping of the two CSV reshaping   *)
(* scripts of typeahead-survey-data.                                       *)
(*                                                                         *)
(* A Python str is a sequence of one-character strings, so that strip,     *)
(* split, lower and replace are computed character by character.  A fixed  *)
(* literal of the code that no routine takes apart (a namespace, a type, a *)
(* dict key) is written as one symbol: <<"zip-codes">>.                    *)
(***************************************************************************)
EXTENDS Integers, Sequences, FiniteSets, TLC

VARIABLES
    lookups,     \* LookupImporter.lookups, the accumulation
    tenant_id,   \* LookupImporter.tenant_id
    call,        \* the last import call: its routine, its input and Len(lookups) before it
    rowsRead,    \* rows read from source files so far, over all calls
    pc,          \* save_to_database: the coroutine's position
    conn,        \* save_to_database: state of the connection ("none", "open", "closed")
    opened,      \* number of asyncpg.connect calls that returned a connection
    records,     \* save_to_database: the rows built for the bulk copy
    copies,      \* the payload of every copy_records_to_table call, in order
    closedAt,    \* pc label at which conn.close() ran ("" before)
    uuids,       \* number of uuid4() values drawn so far
    printed,     \* the last message printed by save_to_database
    file,        \* save_to_json: text of the review file (<<>> before it is written)
    row,         \* transform scripts: the input row being transformed
    out          \* transform scripts: the country written for that row

vars == <<lookups, tenant_id, call, rowsRead, pc, conn, opened, records, copies,
          closedAt, uuids, printed, file, row, out>>

importVars == <<lookups, call, rowsRead>>
sinkVars == <<pc, conn, opened, records, copies, closedAt, uuids, printed>>
jsonVars == <<file>>
transformVars == <<row, out>>

\* Rows read from source files over one run (all import calls together).
MaxRows == 2

-----------------------------------------------------------------------------
(* Python str and list primitives *)

\* An optional str (parent_key): Python's None, or a str.
None == [is_none |-> TRUE, str |-> <<>>]

Str(s) == [is_none |-> FALSE, str |-> s]

\* str.strip() without argument removes these from both ends.
Whitespace == {" ", "\t", "\n", "\r"}

RECURSIVE lstrip(_, _)
lstrip(s, chars) ==
    IF s # <<>> /\ Head(s) \in chars THEN lstrip(Tail(s), chars) ELSE s

RECURSIVE rstrip(_, _)
rstrip(s, chars) ==
    IF s # <<>> /\ s[Len(s)] \in chars
    THEN rstrip(SubSeq(s, 1, Len(s) - 1), chars)
    ELSE s

\* s.strip(chars)
strip_chars(s, chars) == rstrip(lstrip(s, chars), chars)

\* s.strip()
strip(s) == strip_chars(s, Whitespace)

\* s.strip('"')
strip_quote(s) == strip_chars(s, {"\""})

startswith(s, sep) ==
    Len(s) >= Len(sep) /\ SubSeq(s, 1, Len(sep)) = sep

RECURSIVE split_from(_, _, _)
split_from(s, sep, cur) ==
    IF s = <<>> THEN <<cur>>
    ELSE IF startswith(s, sep)
         THEN <<cur>> \o split_from(SubSeq(s, Len(sep) + 1, Len(s)), sep, <<>>)
         ELSE split_from(Tail(s), sep, Append(cur, Head(s)))

\* s.split(sep): every occurrence of sep, left to right, splits
split(s, sep) == split_from(s, sep, <<>>)

\* The separator of the name/location text.
NameSep == <<" ", "-", " ">>

\* Code points of the characters the inputs use (Python compares str by code point).
ord(c) ==
    CASE c = "\t" -> 9   [] c = "\n" -> 10  [] c = " " -> 32  [] c = "\"" -> 34
      [] c = "-" -> 45   [] c = "1" -> 49   [] c = "2" -> 50  [] c = "7" -> 55
      [] c = "8" -> 56   [] c = "9" -> 57   [] c = "A" -> 65  [] c = "B" -> 66
      [] c = "L" -> 76   [] c = "M" -> 77   [] c = "N" -> 78  [] c = "\\" -> 92
      [] c = "x" -> 120  [] OTHER -> 127

RECURSIVE str_lt(_, _)
str_lt(a, b) ==
    IF b = <<>> THEN FALSE
    ELSE IF a = <<>> THEN TRUE
    ELSE IF Head(a) = Head(b) THEN str_lt(Tail(a), Tail(b))
    ELSE ord(Head(a)) < ord(Head(b))

RECURSIVE sorted(_)
sorted(S) ==
    IF S = {} THEN <<>>
    ELSE LET m == CHOOSE x \in S : \A y \in S \ {x} : str_lt(x, y)
         IN <<m>> \o sorted(S \ {m})

\* All sequences over S of length at most n.
SeqsUpTo(S, n) == UNION {[1..k -> S] : k \in 0..n}

-----------------------------------------------------------------------------
(* import_zip_to_market *)

\* The record built from one row of at least two fields.
zip_lookup(r) ==
    LET market_code == strip(r[1])
        zip_code == strip(r[2])
    IN [namespace |-> <<"zip-codes">>,
        key |-> zip_code,
        value |-> [value |-> zip_code, text |-> <<"Z", "I", "P", " ">> \o zip_code],
        parent_key |-> Str(market_code),
        metadata |-> [market_code |-> market_code, type |-> <<"zip_code">>]]

\* A scan that ends at the first short row.
RECURSIVE zip_lookups_until_short(_)
zip_lookups_until_short(rows) ==
    IF rows = <<>> \/ Len(Head(rows)) < 2 THEN <<>>
    ELSE <<zip_lookup(Head(rows))>> \o zip_lookups_until_short(Tail(rows))

\* The scan of the reader: one record per row of at least two fields.
RECURSIVE zip_lookups(_)
zip_lookups(rows) ==
    IF rows = <<>> THEN <<>>
    ELSE (IF Len(Head(rows)) >= 2 THEN <<zip_lookup(Head(rows))>> ELSE <<>>)
         \o zip_lookups(Tail(rows))

\* The market codes as they stand in the file, untrimmed.
markets_untrimmed(rows) ==
    {rows[i][1] : i \in {j \in DOMAIN rows : Len(rows[j]) >= 2}}

\* The set of market codes the scan collects.
markets(rows) ==
    {strip(rows[i][1]) : i \in {j \in DOMAIN rows : Len(rows[j]) >= 2}}

market_lookup(market) ==
    [namespace |-> <<"market-areas">>,
     key |-> market,
     value |-> [value |-> market, text |-> <<"M", "a", "r", "k", "e", "t", " ">> \o market],
     parent_key |-> None,
     metadata |-> [type |-> <<"market_area">>]]

\* One parent record per market, in sorted order.
market_lookups(rows) ==
    LET ms == sorted(markets(rows))
    IN [i \in 1..Len(ms) |-> market_lookup(ms[i])]

\* What one call extends the accumulation with: the parents, then the children.
zip_extension(rows) == market_lookups(rows) \o zip_lookups(rows)

import_zip_to_market(rows) ==
    /\ rowsRead + Len(rows) <= MaxRows
    /\ lookups' = lookups \o zip_extension(rows)
    /\ call' = [op |-> "import_zip_to_market", input |-> rows, before |-> Len(lookups),
                stats |-> <<Len(market_lookups(rows)), Len(zip_lookups(rows))>>]
    /\ rowsRead' = rowsRead + Len(rows)
    /\ UNCHANGED <<tenant_id, sinkVars, jsonVars, transformVars>>

-----------------------------------------------------------------------------
(* import_hospital_list and import_hospital_systems *)

\* name and location of the combined text, as both routines compute them.
name_of(text) ==
    LET parts == split(text, NameSep)
    IN IF parts # <<>> THEN parts[1] ELSE text

location_of(text) ==
    LET parts == split(text, NameSep)
    IN IF Len(parts) > 1 THEN parts[2] ELSE <<>>

hospital_lookup(r) ==
    LET hospital_code == strip_quote(r[1])
        hospital_name == strip_quote(r[3])
    IN [namespace |-> <<"hospitals">>,
        key |-> hospital_code,
        value |-> [value |-> hospital_code, text |-> hospital_name],
        parent_key |-> None,
        metadata |-> [type |-> <<"hospital">>,
                      name |-> name_of(hospital_name),
                      location |-> location_of(hospital_name)]]

RECURSIVE hospital_lookups(_)
hospital_lookups(rows) ==
    IF rows = <<>> THEN <<>>
    ELSE (IF Len(Head(rows)) >= 3 THEN <<hospital_lookup(Head(rows))>> ELSE <<>>)
         \o hospital_lookups(Tail(rows))

import_hospital_list(rows) ==
    /\ rowsRead + Len(rows) <= MaxRows
    /\ lookups' = lookups \o hospital_lookups(rows)
    /\ call' = [op |-> "import_hospital_list", input |-> rows, before |-> Len(lookups),
                stats |-> <<Len(hospital_lookups(rows))>>]
    /\ rowsRead' = rowsRead + Len(rows)
    /\ UNCHANGED <<tenant_id, sinkVars, jsonVars, transformVars>>

Tab == <<"\t">>

\* A flag for every code that begins with "-1".
is_special_prefix(system_code) == startswith(system_code, <<"-", "1">>)

\* is_special of a record with this code.
is_special(system_code) == system_code = <<"-", "1">>

\* The record built from the tab fields of a line (at least two).
system_lookup(parts) ==
    LET system_name == strip(parts[1])
        system_code == strip(parts[2])
    IN [namespace |-> <<"hospital-systems">>,
        key |-> system_code,
        value |-> [value |-> system_code, text |-> system_name],
        parent_key |-> None,
        metadata |-> [type |-> <<"hospital_system">>,
                      name |-> name_of(system_name),
                      location |-> location_of(system_name),
                      is_special |-> is_special(system_code)]]

\* The records of one line of the file: none or one.
system_line(raw) ==
    LET line == strip(raw)
    IN IF line = <<>> THEN <<>>
       ELSE LET parts == split(line, Tab)
            IN IF Len(parts) >= 2 THEN <<system_lookup(parts)>> ELSE <<>>

RECURSIVE system_lookups(_)
system_lookups(lines) ==
    IF lines = <<>> THEN <<>>
    ELSE system_line(Head(lines)) \o system_lookups(Tail(lines))

import_hospital_systems(lines) ==
    /\ rowsRead + Len(lines) <= MaxRows
    /\ lookups' = lookups \o system_lookups(lines)
    /\ call' = [op |-> "import_hospital_systems", input |-> lines, before |-> Len(lookups),
                stats |-> <<Len(system_lookups(lines))>>]
    /\ rowsRead' = rowsRead + Len(lines)
    /\ UNCHANGED <<tenant_id, sinkVars, jsonVars, transformVars>>

-----------------------------------------------------------------------------
(* Source files: the rows csv.reader yields, and the raw lines of the .dat file *)

ZipRows ==
    { <<>>,                                         \* a blank line
      << <<"A">> >>,                                \* one field
      << <<"A">>, <<"1">> >>,
      << <<" ", "A">>, <<"2">> >>,                  \* market code with a leading blank
      << <<"B">>, <<"1">> >>,                       \* the same ZIP under another market
      << <<"A">>, <<>> >>,                          \* empty ZIP field
      << <<>>, <<"1">> >>,                          \* empty market field
      << <<"B">>, <<"2", " ">>, <<"x">> >> }        \* three fields

HospitalRows ==
    { <<>>,
      << <<"7">>, <<>> >>,                                                \* two fields
      << <<"7">>, <<>>, <<"N", " ", "-", " ", "L">> >>,
      << <<"8">>, <<>>, <<" ", "\"", "N", " ", "-", " ", "L", "\"">> >>,  \* , "N - L"
      << <<"9">>, <<>>, <<"N">> >>,                                       \* no separator
      << <<"\"", "\"">>, <<>>, <<"N", " ", "-", "L">> >>,                 \* code of quotes only
      << <<"7", "\"", "\\">>, <<>>, <<"N", "\t", "\\", "\"", "L">> >>,       \* quote, backslash, tab inside
      << <<"7">>, <<>>, <<"N", " ", "-", " ", "L", " ", "-", " ", "M">>, <<"x">> >> }

SystemLines ==
    { <<"\n">>,
      <<" ", " ", "\n">>,
      <<"N", "\n">>,                                                      \* no tab
      <<"N", " ", "-", " ", "L", "\t", "-", "1", "\n">>,
      <<"N", "\t", "7">>,                                                 \* last line, no newline
      <<"N", "\t", "\n">>,                                                \* trailing tab
      <<"N", " ", "-", " ", "L", " ", "-", " ", "M", "\t", "-", "1", " ", "\t", "x", "\n">>,
      <<"N", "\t", "-", "1", "2", "\n">>,
      <<"N", "\t", " ", "\t", "x", "\n">> }                               \* blank code field

-----------------------------------------------------------------------------
(* The importer: any sequence of import calls *)

NoCall == [op |-> "none", input |-> <<>>, before |-> 0, stats |-> <<>>]

TenantIds == {"00000000-0000-0000-0000-000000000001", "00000000-0000-0000-0000-000000000002"}

IdleSink ==
    /\ pc = "idle" /\ conn = "none" /\ opened = 0 /\ records = <<>> /\ copies = <<>>
    /\ closedAt = "" /\ uuids = 0 /\ printed = <<>>

IdleJson == file = <<>>

IdleTransform == row = [country |-> <<>>] /\ out = [data |-> <<>>, upload |-> <<>>]

Init ==
    /\ lookups = <<>>
    /\ tenant_id \in TenantIds
    /\ call = NoCall
    /\ rowsRead = 0
    /\ IdleSink /\ IdleJson /\ IdleTransform

\* An accumulation that takes the records as the scan builds them.
accumulation_with_partial(acc, built) == acc \o built

\* self.lookups when the scan raises: the records built so far are in the locals of
\* the call, and the extend after the with block is never reached.
accumulation_after_raise(acc, built) == acc

\* The call record of an import that raised after reading these rows.
Raised(routine, rows) ==
    [op |-> "raised", routine |-> routine, input |-> rows, before |-> Len(lookups),
     stats |-> <<>>]

\* open() raises (no row read), or the reader raises after these rows were scanned.
import_zip_to_market_raises(rows) ==
    /\ rowsRead + Len(rows) <= MaxRows
    /\ lookups' = accumulation_after_raise(lookups, zip_lookups(rows))
    /\ call' = Raised("import_zip_to_market", rows)
    /\ rowsRead' = rowsRead + Len(rows)
    /\ UNCHANGED <<tenant_id, sinkVars, jsonVars, transformVars>>

import_hospital_list_raises(rows) ==
    /\ rowsRead + Len(rows) <= MaxRows
    /\ lookups' = accumulation_after_raise(lookups, hospital_lookups(rows))
    /\ call' = Raised("import_hospital_list", rows)
    /\ rowsRead' = rowsRead + Len(rows)
    /\ UNCHANGED <<tenant_id, sinkVars, jsonVars, transformVars>>

import_hospital_systems_raises(lines) ==
    /\ rowsRead + Len(lines) <= MaxRows
    /\ lookups' = accumulation_after_raise(lookups, system_lookups(lines))
    /\ call' = Raised("import_hospital_systems", lines)
    /\ rowsRead' = rowsRead + Len(lines)
    /\ UNCHANGED <<tenant_id, sinkVars, jsonVars, transformVars>>

Next ==
    \/ \E rows \in SeqsUpTo(ZipRows, MaxRows - rowsRead) : import_zip_to_market(rows)
    \/ \E rows \in SeqsUpTo(HospitalRows, MaxRows - rowsRead) : import_hospital_list(rows)
    \/ \E lines \in SeqsUpTo(SystemLines, MaxRows - rowsRead) : import_hospital_systems(lines)
    \/ \E rows \in SeqsUpTo(ZipRows, MaxRows - rowsRead) : import_zip_to_market_raises(rows)
    \/ \E rows \in SeqsUpTo(HospitalRows, MaxRows - rowsRead) : import_hospital_list_raises(rows)
    \/ \E lines \in SeqsUpTo(SystemLines, MaxRows - rowsRead) :
          import_hospital_systems_raises(lines)

Spec == Init /\ [][Next]_vars

\* The records the last call appended.
appended == SubSeq(lookups, call.before + 1, Len(lookups))


-----------------------------------------------------------------------------
(* json.dumps / json.dump *)

\* JSON values: a str, null, a bool, a dict (its items in insertion order), a list.
JStr(s) == [t |-> "str", v |-> s]

JNull == [t |-> "null", v |-> <<>>]

JBool(b) == [t |-> "bool", v |-> b]

JObj(items) == [t |-> "obj", v |-> items]

JArr(elems) == [t |-> "arr", v |-> elems]

JOpt(o) == IF o.is_none THEN JNull ELSE JStr(o.str)

\* The dict of a lookup's "value".
value_json(val) == JObj(<< <<(<<"value">>), JStr(val.value)>>, <<(<<"text">>), JStr(val.text)>> >>)

\* The dict of a lookup's "metadata": its keys depend on the routine that built it.
metadata_json(rec) ==
    LET m == rec.metadata
    IN CASE rec.namespace = <<"zip-codes">> ->
              JObj(<< <<(<<"market_code">>), JStr(m.market_code)>>, <<(<<"type">>), JStr(m.type)>> >>)
         [] rec.namespace = <<"market-areas">> ->
              JObj(<< <<(<<"type">>), JStr(m.type)>> >>)
         [] rec.namespace = <<"hospitals">> ->
              JObj(<< <<(<<"type">>), JStr(m.type)>>, <<(<<"name">>), JStr(m.name)>>,
                      <<(<<"location">>), JStr(m.location)>> >>)
         [] rec.namespace = <<"hospital-systems">> ->
              JObj(<< <<(<<"type">>), JStr(m.type)>>, <<(<<"name">>), JStr(m.name)>>,
                      <<(<<"location">>), JStr(m.location)>>,
                      <<(<<"is_special">>), JBool(m.is_special)>> >>)

\* The dict of a lookup.
lookup_json(rec) ==
    JObj(<< <<(<<"namespace">>), JStr(rec.namespace)>>,
            <<(<<"key">>), JStr(rec.key)>>,
            <<(<<"value">>), value_json(rec.value)>>,
            <<(<<"parent_key">>), JOpt(rec.parent_key)>>,
            <<(<<"metadata">>), metadata_json(rec)>> >>)

\* A dump that writes every character of a str as it is.
escape_char_verbatim(c) == <<c>>

\* The escape of one character inside a JSON string.
escape_char(c) ==
    CASE c = "\"" -> <<"\\", "\"">>
      [] c = "\\" -> <<"\\", "\\">>
      [] c = "\n" -> <<"\\", "n">>
      [] c = "\r" -> <<"\\", "r">>
      [] c = "\t" -> <<"\\", "t">>
      [] OTHER -> <<c>>

RECURSIVE escape(_)
escape(s) == IF s = <<>> THEN <<>> ELSE escape_char(Head(s)) \o escape(Tail(s))

encode_str(s) == <<"\"">> \o escape(s) \o <<"\"">>

RECURSIVE spaces(_)
spaces(n) == IF n = 0 THEN <<>> ELSE <<" ">> \o spaces(n - 1)

\* The line break and indentation json.dump writes at this depth under indent=2.
Indent == 2

newline_indent(pretty, depth) ==
    IF pretty THEN <<"\n">> \o spaces(Indent * depth) ELSE <<>>

item_separator(pretty, depth) ==
    IF pretty THEN <<",">> \o newline_indent(pretty, depth) ELSE <<",", " ">>

RECURSIVE encode(_, _, _)
RECURSIVE encode_items(_, _, _)
RECURSIVE encode_elems(_, _, _)

encode_items(items, pretty, depth) ==
    IF items = <<>> THEN <<>>
    ELSE encode_str(Head(items)[1]) \o <<":", " ">> \o encode(Head(items)[2], pretty, depth)
         \o (IF Tail(items) = <<>> THEN <<>>
             ELSE item_separator(pretty, depth) \o encode_items(Tail(items), pretty, depth))

encode_elems(elems, pretty, depth) ==
    IF elems = <<>> THEN <<>>
    ELSE encode(Head(elems), pretty, depth)
         \o (IF Tail(elems) = <<>> THEN <<>>
             ELSE item_separator(pretty, depth) \o encode_elems(Tail(elems), pretty, depth))

\* The text of a value: compact (json.dumps) or under indent=2 (pretty).
encode(j, pretty, depth) ==
    CASE j.t = "str" -> encode_str(j.v)
      [] j.t = "null" -> <<"n", "u", "l", "l">>
      [] j.t = "bool" -> IF j.v THEN <<"t", "r", "u", "e">> ELSE <<"f", "a", "l", "s", "e">>
      [] j.t = "obj" ->
            IF j.v = <<>> THEN <<"{", "}">>
            ELSE <<"{">> \o newline_indent(pretty, depth + 1)
                 \o encode_items(j.v, pretty, depth + 1)
                 \o newline_indent(pretty, depth) \o <<"}">>
      [] j.t = "arr" ->
            IF j.v = <<>> THEN <<"[", "]">>
            ELSE <<"[">> \o newline_indent(pretty, depth + 1)
                 \o encode_elems(j.v, pretty, depth + 1)
                 \o newline_indent(pretty, depth) \o <<"]">>

\* json.dumps(obj)
json_dumps(j) == encode(j, FALSE, 0)

-----------------------------------------------------------------------------
(* save_to_database *)

\* What one import call can leave in the accumulation.
Accumulations ==
    {zip_extension(rows) : rows \in SeqsUpTo(ZipRows, MaxRows)}
        \cup {hospital_lookups(rows) : rows \in SeqsUpTo(HospitalRows, MaxRows)}
        \cup {system_lookups(lines) : lines \in SeqsUpTo(SystemLines, MaxRows)}

\* The k-th value uuid4() returns; the model takes no two draws to collide.
uuid4(k) == k

\* The tuple built for one lookup, with the id drawn for it.
record_of(lookup, id) ==
    [id |-> id,
     tenant_id |-> tenant_id,
     namespace |-> lookup.namespace,
     key |-> lookup.key,
     value |-> json_dumps(value_json(lookup.value)),
     version |-> 1,
     parent_key |-> lookup.parent_key,
     metadata |-> json_dumps(metadata_json(lookup)),
     created_at |-> "utcnow",
     updated_at |-> "utcnow",
     deleted_at |-> None]

\* One id for the whole batch.
build_records_one_id == [i \in 1..Len(lookups) |-> record_of(lookups[i], uuid4(uuids + 1))]

\* The loop over self.lookups: one uuid4() per row.
build_records == [i \in 1..Len(lookups) |-> record_of(lookups[i], uuid4(uuids + i))]

\* A call that goes on to connect whatever the accumulation holds.
save_to_database_unguarded ==
    /\ pc = "idle"
    /\ pc' = "connect"
    /\ UNCHANGED <<conn, opened, records, copies, closedAt, uuids, printed>>
    /\ UNCHANGED <<tenant_id, importVars, jsonVars, transformVars>>

\* The call, up to its first await.
save_to_database ==
    /\ pc = "idle"
    /\ IF lookups = <<>>
       THEN pc' = "returned" /\ printed' = <<"No lookups to save">>
       ELSE pc' = "connect" /\ UNCHANGED printed
    /\ UNCHANGED <<conn, opened, records, copies, closedAt, uuids>>
    /\ UNCHANGED <<tenant_id, importVars, jsonVars, transformVars>>

\* await asyncpg.connect(...) returns a connection.
connect ==
    /\ pc = "connect"
    /\ conn' = "open" /\ opened' = opened + 1
    /\ pc' = "try"
    /\ UNCHANGED <<records, copies, closedAt, uuids, printed>>
    /\ UNCHANGED <<tenant_id, importVars, jsonVars, transformVars>>

\* await asyncpg.connect(...) raises: there is no connection, and no try block yet.
connect_raises ==
    /\ pc = "connect"
    /\ pc' = "raised"
    /\ UNCHANGED <<conn, opened, records, copies, closedAt, uuids, printed>>
    /\ UNCHANGED <<tenant_id, importVars, jsonVars, transformVars>>

\* The rows are built, and the bulk copy is submitted and completes.
copy_records_to_table ==
    /\ pc = "try"
    /\ records' = build_records
    /\ uuids' = uuids + Len(lookups)
    /\ copies' = Append(copies, records')
    /\ printed' = <<"Successfully saved", Len(records'), "lookups to database">>
    /\ pc' = "finally"
    /\ UNCHANGED <<conn, opened, closedAt>>
    /\ UNCHANGED <<tenant_id, importVars, jsonVars, transformVars>>

\* Building the rows raises (after k of them): no bulk copy is submitted.
build_raises ==
    /\ pc = "try"
    /\ \E k \in 0..(Len(lookups) - 1) :
          /\ records' = SubSeq(build_records, 1, k)
          /\ uuids' = uuids + k + 1
    /\ pc' = "finally_raising"
    /\ UNCHANGED <<conn, opened, copies, closedAt, printed>>
    /\ UNCHANGED <<tenant_id, importVars, jsonVars, transformVars>>

\* The rows are built, and the bulk copy is submitted and raises.
copy_raises ==
    /\ pc = "try"
    /\ records' = build_records
    /\ uuids' = uuids + Len(lookups)
    /\ copies' = Append(copies, records')
    /\ pc' = "finally_raising"
    /\ UNCHANGED <<conn, opened, closedAt, printed>>
    /\ UNCHANGED <<tenant_id, importVars, jsonVars, transformVars>>

\* A close that runs only when the try block completed.
close_unless_raising ==
    /\ pc \in {"finally", "finally_raising"}
    /\ IF pc = "finally"
       THEN conn' = "closed" /\ closedAt' = pc /\ pc' = "returned"
       ELSE pc' = "raised" /\ UNCHANGED <<conn, closedAt>>
    /\ UNCHANGED <<opened, records, copies, uuids, printed>>
    /\ UNCHANGED <<tenant_id, importVars, jsonVars, transformVars>>

\* finally: await conn.close(); then the call returns, or the pending error goes on
\* to the caller.
close ==
    /\ pc \in {"finally", "finally_raising"}
    /\ conn' = "closed"
    /\ closedAt' = pc
    /\ pc' = IF pc = "finally" THEN "returned" ELSE "raised"
    /\ UNCHANGED <<opened, records, copies, uuids, printed>>
    /\ UNCHANGED <<tenant_id, importVars, jsonVars, transformVars>>

SinkInit ==
    /\ lookups \in Accumulations
    /\ tenant_id \in TenantIds
    /\ call = NoCall
    /\ rowsRead = 0
    /\ IdleSink /\ IdleJson /\ IdleTransform

SinkNext ==
    \/ save_to_database
    \/ connect
    \/ connect_raises
    \/ copy_records_to_table
    \/ build_raises
    \/ copy_raises
    \/ close

SinkSpec == SinkInit /\ [][SinkNext]_vars


-----------------------------------------------------------------------------
(* Rows, fields and texts read apart from the routines, and what the imports owe *)

\* The records of seq with this namespace, in order.
in_namespace(seq, ns) == SelectSeq(seq, LAMBDA rec : rec.namespace = ns)

\* Index of the first occurrence of sep in s, 0 when there is none.
find(s, sep) ==
    LET at == {i \in 1..Len(s) : startswith(SubSeq(s, i, Len(s)), sep)}
    IN IF at = {} THEN 0 ELSE CHOOSE i \in at : \A j \in at : i <= j

\* The number of tab fields of a line.
tab_fields(s) == Cardinality({i \in DOMAIN s : s[i] = "\t"}) + 1

\* The second tab field of a line that has one.
second_tab_field(s) ==
    LET rest == SubSeq(s, find(s, Tab) + 1, Len(s))
        stop == find(rest, Tab)
    IN IF stop = 0 THEN rest ELSE SubSeq(rest, 1, stop - 1)

ZipQualifies(r) == Len(r) >= 2

HospitalQualifies(r) == Len(r) >= 3

\* A line qualifies by the fields of the trimmed line ...
SystemQualifies(raw) == strip(raw) # <<>> /\ tab_fields(strip(raw)) >= 2

\* ... or by the fields of the line as it is in the file.
SystemQualifiesRaw(raw) == strip(raw) # <<>> /\ tab_fields(raw) >= 2

IsZipCall == call.op = "import_zip_to_market"

IsHospitalCall == call.op = "import_hospital_list"

IsSystemCall == call.op = "import_hospital_systems"

\* The parents and the children the last import_zip_to_market call appended.
parents == in_namespace(appended, <<"market-areas">>)

children == in_namespace(appended, <<"zip-codes">>)

ChildrenHaveParents ==
    \A i \in DOMAIN children :
        \E j \in DOMAIN parents : children[i].parent_key = Str(parents[j].key)

AllRowsHaveTwoFields == \A i \in DOMAIN call.input : Len(call.input[i]) >= 2

\* C1 as stated: on N rows of at least two fields with M distinct first-column
\* values, import_zip_to_market appends exactly N children and exactly M parents,
\* and every child's parent_key is the key of a parent of the same call.
C1_DistinctFirstColumn ==
    (IsZipCall /\ AllRowsHaveTwoFields) =>
        /\ Len(appended) = Len(parents) + Len(children)
        /\ Len(children) = Len(call.input)
        /\ Len(parents) = Cardinality({call.input[i][1] : i \in DOMAIN call.input})
        /\ ChildrenHaveParents

\* C1 amended: the same, with M the number of distinct first-column values after
\* trimming surrounding whitespace.
C1_DistinctTrimmedFirstColumn ==
    (IsZipCall /\ AllRowsHaveTwoFields) =>
        /\ Len(appended) = Len(parents) + Len(children)
        /\ Len(children) = Len(call.input)
        /\ Len(parents) = Cardinality({strip(call.input[i][1]) : i \in DOMAIN call.input})
        /\ \A i, j \in DOMAIN parents : i # j => parents[i].key # parents[j].key
        /\ ChildrenHaveParents

\* A call on rows that repeat: an identical row twice, or one ZIP under two markets.
C1_Witness ==
    /\ IsZipCall /\ AllRowsHaveTwoFields
    /\ \E i, j \in DOMAIN call.input :
          /\ i < j
          /\ call.input[i][2] = call.input[j][2]
    /\ Len(children) >= 2
    /\ Len(parents) < Len(children)

\* C2: name is the text before the first " - " and location the whole remainder
\* after it; without a separator, name is the whole text and location is empty.
C2_SplitAtFirstSeparator ==
    (IsHospitalCall \/ IsSystemCall) =>
        \A i \in DOMAIN appended :
            LET text == appended[i].value.text
                at == find(text, NameSep)
            IN IF at = 0
               THEN /\ appended[i].metadata.name = text
                    /\ appended[i].metadata.location = <<>>
               ELSE /\ appended[i].metadata.name = SubSeq(text, 1, at - 1)
                    /\ appended[i].metadata.location =
                           SubSeq(text, at + Len(NameSep), Len(text))

\* The records a routine owes to the qualifying rows, in input order.
ZipOwed(rows) ==
    LET q == SelectSeq(rows, ZipQualifies)
    IN market_lookups(q) \o [i \in 1..Len(q) |-> zip_lookup(q[i])]

HospitalOwed(rows) ==
    LET q == SelectSeq(rows, HospitalQualifies)
    IN [i \in 1..Len(q) |-> hospital_lookup(q[i])]

SystemOwed(lines) ==
    LET q == SelectSeq(lines, SystemQualifies)
    IN [i \in 1..Len(q) |->
           system_lookup(<<SubSeq(strip(q[i]), 1, find(strip(q[i]), Tab) - 1),
                           second_tab_field(strip(q[i]))>>)]

\* C3 as stated: rows below the minimum field count (a line of fewer than 2 tab
\* fields, or empty after trimming, for import_hospital_systems) give no record
\* and do not stop the scan: the records appended are those of the other rows.
C3_ShortRowsSkipped ==
    /\ IsZipCall => appended = ZipOwed(call.input)
    /\ IsHospitalCall => appended = HospitalOwed(call.input)
    /\ IsSystemCall =>
          /\ Len(appended) = Len(SelectSeq(call.input, SystemQualifiesRaw))
          /\ appended = SystemOwed(call.input)

\* C3 amended: the same, the tab fields of a line being counted after the line
\* is trimmed.
C3_ShortRowsSkippedTrimmed ==
    /\ IsZipCall => appended = ZipOwed(call.input)
    /\ IsHospitalCall => appended = HospitalOwed(call.input)
    /\ IsSystemCall =>
          /\ Len(appended) = Len(SelectSeq(call.input, SystemQualifies))
          /\ appended = SystemOwed(call.input)

\* A short row that is followed by a qualifying row, whose record was appended.
C3_Witness ==
    /\ IsZipCall
    /\ \E i, j \in DOMAIN call.input :
          i < j /\ ~ZipQualifies(call.input[i]) /\ ZipQualifies(call.input[j])
    /\ children # <<>>

\* C7: every record of the accumulation has a non-empty key.
C7_KeysNonEmpty == \A i \in DOMAIN lookups : lookups[i].key # <<>>

\* C10: a record of import_hospital_systems has is_special true exactly when the
\* trimmed second tab field of its line is "-1".
C10_IsSpecialIffMinusOne ==
    IsSystemCall =>
        LET q == SelectSeq(call.input, SystemQualifies)
        IN /\ Len(appended) = Len(q)
           /\ \A i \in DOMAIN q :
                 appended[i].metadata.is_special
                     = (strip(second_tab_field(strip(q[i]))) = <<"-", "1">>)

\* A call that appended a special record and one that is not special.
C10_Witness ==
    /\ IsSystemCall
    /\ \E i, j \in DOMAIN appended :
          /\ appended[i].metadata.is_special
          /\ ~appended[j].metadata.is_special
          /\ appended[j].key # <<>>


-----------------------------------------------------------------------------
(* Properties of save_to_database *)

Finished == pc \in {"returned", "raised"}

\* C4: with a non-empty accumulation, the connection that was opened is closed
\* when the call returns and when it raises, whether the rows, the bulk copy or
\* nothing failed; the error reaches the caller after the close; there is one
\* connection and at most one bulk copy, never a second attempt.
C4_ConnectionReleased ==
    lookups # <<>> =>
        /\ (Finished /\ opened > 0) => conn = "closed"
        /\ (pc = "raised" /\ opened > 0) => closedAt = "finally_raising"
        /\ conn = "open" => pc \in {"try", "finally", "finally_raising"}
        /\ opened <= 1
        /\ Len(copies) <= 1

\* The bulk copy was submitted and failed, and the caller has the error.
C4_Witness ==
    /\ lookups # <<>>
    /\ pc = "raised"
    /\ Len(copies) = 1
    /\ conn = "closed"

\* C5: with an empty accumulation save_to_database does nothing: no connection,
\* no bulk copy, no error, nothing written.
C5_EmptyDoesNothing ==
    (lookups = <<>> /\ pc # "idle") =>
        /\ pc = "returned"
        /\ conn = "none" /\ opened = 0
        /\ records = <<>> /\ copies = <<>>
        /\ uuids = 0
        /\ printed = <<"No lookups to save">>

\* The call on an empty accumulation has returned.
C5_Witness == lookups = <<>> /\ pc = "returned"

\* C6: for n > 0 records there is exactly one connection and exactly one bulk
\* copy, of n rows in accumulation order; row i has record i's namespace, key
\* and parent_key, the importer's tenant_id, version 1, deleted_at null, and an
\* id no other row has.
C6_OneCopyOfAllRows ==
    /\ (lookups # <<>> /\ pc = "returned") => Len(copies) = 1
    /\ (lookups # <<>> /\ copies # <<>>) =>
          /\ opened = 1
          /\ Len(copies) = 1
          /\ Len(copies[1]) = Len(lookups)
          /\ \A i \in DOMAIN copies[1] :
                LET r == copies[1][i]
                IN /\ r.namespace = lookups[i].namespace
                   /\ r.key = lookups[i].key
                   /\ r.parent_key = lookups[i].parent_key
                   /\ r.tenant_id = tenant_id
                   /\ r.version = 1
                   /\ r.deleted_at = None
                   /\ \A j \in DOMAIN copies[1] : j # i => copies[1][j].id # r.id

\* A bulk copy of several rows, parents and children, has completed.
C6_Witness ==
    /\ pc = "returned"
    /\ copies # <<>>
    /\ Len(copies[1]) >= 3
    /\ \E i \in DOMAIN lookups : ~lookups[i].parent_key.is_none


-----------------------------------------------------------------------------
(* save_to_json *)

\* json.dump(self.lookups, f, indent=2, default=str): every value of a lookup is a
\* str, a bool, None or a dict of these, so default is never called.
json_dump(lks) == encode(JArr([i \in 1..Len(lks) |-> lookup_json(lks[i])]), TRUE, 0)

save_to_json ==
    /\ file' = json_dump(lookups)
    /\ UNCHANGED <<tenant_id, importVars, sinkVars, transformVars>>

JsonInit ==
    /\ lookups \in Accumulations
    /\ tenant_id \in TenantIds
    /\ call = NoCall
    /\ rowsRead = 0
    /\ IdleSink /\ IdleJson /\ IdleTransform

JsonNext == save_to_json

JsonSpec == JsonInit /\ [][JsonNext]_vars

-----------------------------------------------------------------------------
(* Re-reading the review file: a JSON reader (json.load) *)

JError == [t |-> "error", v |-> <<>>]

Fail == [v |-> JError, next |-> 0]

RECURSIVE skip_ws(_, _)
skip_ws(s, i) ==
    IF i <= Len(s) /\ s[i] \in Whitespace THEN skip_ws(s, i + 1) ELSE i

unescape_char(c) ==
    CASE c = "n" -> "\n" [] c = "r" -> "\r" [] c = "t" -> "\t" [] OTHER -> c

\* The str that starts after an opening quote: up to the closing quote, escapes
\* undone; a raw control character or a missing quote is an error.
RECURSIVE scan_string(_, _, _)
scan_string(s, i, acc) ==
    IF i > Len(s) \/ s[i] \in {"\n", "\r", "\t"} THEN Fail
    ELSE IF s[i] = "\"" THEN [v |-> JStr(acc), next |-> i + 1]
    ELSE IF s[i] = "\\"
         THEN IF i + 1 > Len(s) \/ s[i + 1] \notin {"\"", "\\", "n", "r", "t"} THEN Fail
              ELSE scan_string(s, i + 2, Append(acc, unescape_char(s[i + 1])))
    ELSE scan_string(s, i + 1, Append(acc, s[i]))

literal_at(s, i, word) ==
    i + Len(word) - 1 <= Len(s) /\ SubSeq(s, i, i + Len(word) - 1) = word

RECURSIVE parse_value(_, _)
RECURSIVE parse_members(_, _, _)
RECURSIVE parse_elems(_, _, _)

parse_value(s, i0) ==
    LET i == skip_ws(s, i0)
    IN IF i > Len(s) THEN Fail
       ELSE CASE s[i] = "\"" -> scan_string(s, i + 1, <<>>)
              [] s[i] = "{" ->
                    LET j == skip_ws(s, i + 1)
                    IN IF j <= Len(s) /\ s[j] = "}"
                       THEN [v |-> JObj(<<>>), next |-> j + 1]
                       ELSE parse_members(s, j, <<>>)
              [] s[i] = "[" ->
                    LET j == skip_ws(s, i + 1)
                    IN IF j <= Len(s) /\ s[j] = "]"
                       THEN [v |-> JArr(<<>>), next |-> j + 1]
                       ELSE parse_elems(s, j, <<>>)
              [] literal_at(s, i, <<"n", "u", "l", "l">>) -> [v |-> JNull, next |-> i + 4]
              [] literal_at(s, i, <<"t", "r", "u", "e">>) -> [v |-> JBool(TRUE), next |-> i + 4]
              [] literal_at(s, i, <<"f", "a", "l", "s", "e">>) ->
                    [v |-> JBool(FALSE), next |-> i + 5]
              [] OTHER -> Fail

\* "key": value pairs up to the closing brace.
parse_members(s, i0, acc) ==
    LET i == skip_ws(s, i0)
    IN IF i > Len(s) \/ s[i] # "\"" THEN Fail
       ELSE LET k == scan_string(s, i + 1, <<>>)
            IN IF k.next = 0 THEN Fail
               ELSE LET c == skip_ws(s, k.next)
                    IN IF c > Len(s) \/ s[c] # ":" THEN Fail
                       ELSE LET val == parse_value(s, c + 1)
                            IN IF val.next = 0 THEN Fail
                               ELSE LET d == skip_ws(s, val.next)
                                        items == Append(acc, <<k.v.v, val.v>>)
                                    IN IF d > Len(s) THEN Fail
                                       ELSE IF s[d] = "," THEN parse_members(s, d + 1, items)
                                       ELSE IF s[d] = "}"
                                            THEN [v |-> JObj(items), next |-> d + 1]
                                       ELSE Fail

\* Values up to the closing bracket.
parse_elems(s, i0, acc) ==
    LET val == parse_value(s, i0)
    IN IF val.next = 0 THEN Fail
       ELSE LET d == skip_ws(s, val.next)
                elems == Append(acc, val.v)
            IN IF d > Len(s) THEN Fail
               ELSE IF s[d] = "," THEN parse_elems(s, d + 1, elems)
               ELSE IF s[d] = "]" THEN [v |-> JArr(elems), next |-> d + 1]
               ELSE Fail

\* The document of a text: one value and nothing after it.
json_loads(s) ==
    LET r == parse_value(s, 1)
    IN IF r.next = 0 \/ skip_ws(s, r.next) <= Len(s) THEN JError ELSE r.v

\* The value of a dict under a key (JError when the key is missing).
get(obj, k) ==
    IF obj.t # "obj" \/ ~\E i \in DOMAIN obj.v : obj.v[i][1] = k THEN JError
    ELSE obj.v[CHOOSE i \in DOMAIN obj.v : obj.v[i][1] = k][2]

\* C8: the review file, read back, is N records in accumulation order, each with
\* the namespace, key and value of the record at its position.
C8_JsonRoundTrip ==
    file # <<>> =>
        LET doc == json_loads(file)
        IN /\ doc.t = "arr"
           /\ Len(doc.v) = Len(lookups)
           /\ \A i \in DOMAIN lookups :
                 /\ get(doc.v[i], <<"namespace">>) = JStr(lookups[i].namespace)
                 /\ get(doc.v[i], <<"key">>) = JStr(lookups[i].key)
                 /\ get(get(doc.v[i], <<"value">>), <<"value">>) = JStr(lookups[i].value.value)
                 /\ get(get(doc.v[i], <<"value">>), <<"text">>) = JStr(lookups[i].value.text)
                 /\ Len(get(doc.v[i], <<"value">>).v) = 2

\* A file of several records, one of them with a quote or a backslash in its key.
C8_Witness ==
    /\ file # <<>>
    /\ Len(lookups) >= 2
    /\ \E i \in DOMAIN lookups :
          \E n \in DOMAIN lookups[i].key : lookups[i].key[n] \in {"\"", "\\"}


-----------------------------------------------------------------------------
(* transform_data.py and transform_for_upload.py: the country of a row *)

\* Longest country name drawn over NameChars.
MaxNameLen == 3

UpperCase ==
    <<"A", "B", "C", "D", "E", "F", "G", "H", "I", "J", "K", "L", "M",
      "N", "O", "P", "Q", "R", "S", "T", "U", "V", "W", "X", "Y", "Z">>

LowerCase ==
    <<"a", "b", "c", "d", "e", "f", "g", "h", "i", "j", "k", "l", "m",
      "n", "o", "p", "q", "r", "s", "t", "u", "v", "w", "x", "y", "z">>

lower_char(c) ==
    IF \E i \in DOMAIN UpperCase : UpperCase[i] = c
    THEN LowerCase[CHOOSE i \in DOMAIN UpperCase : UpperCase[i] = c]
    ELSE c

\* s.lower()
lower(s) == [i \in DOMAIN s |-> lower_char(s[i])]

\* s.replace(old, new) for one-character old and new
replace(s, old, new) == [i \in DOMAIN s |-> IF s[i] = old THEN new ELSE s[i]]

\* row['country'].lower().replace(' ', '-')
slug(s) == replace(lower(s), " ", "-")

\* dict.get(k, default) on a dict given by its items
dict_get(items, k, default) ==
    IF \E kv \in items : kv[1] = k
    THEN (CHOOSE kv \in items : kv[1] = k)[2]
    ELSE default

\* transform_data.py: country_to_code
country_to_code ==
    {
      <<<<"U", "n", "i", "t", "e", "d", " ", "S", "t", "a", "t", "e", "s">>, <<"u", "s">>>>,
      <<<<"C", "h", "i", "n", "a">>, <<"c", "n">>>>,
      <<<<"U", "n", "i", "t", "e", "d", " ", "A", "r", "a", "b", " ", "E", "m", "i", "r", "a", "t", "e", "s">>, <<"a", "e">>>>,
      <<<<"J", "a", "p", "a", "n">>, <<"j", "p">>>>,
      <<<<"U", "n", "i", "t", "e", "d", " ", "K", "i", "n", "g", "d", "o", "m">>, <<"g", "b">>>>,
      <<<<"F", "r", "a", "n", "c", "e">>, <<"f", "r">>>>,
      <<<<"G", "e", "r", "m", "a", "n", "y">>, <<"d", "e">>>>,
      <<<<"S", "p", "a", "i", "n">>, <<"e", "s">>>>,
      <<<<"N", "e", "t", "h", "e", "r", "l", "a", "n", "d", "s">>, <<"n", "l">>>>,
      <<<<"T", "u", "r", "k", "e", "y">>, <<"t", "r">>>>,
      <<<<"I", "n", "d", "i", "a">>, <<"i", "n">>>>,
      <<<<"I", "n", "d", "o", "n", "e", "s", "i", "a">>, <<"i", "d">>>>,
      <<<<"C", "a", "n", "a", "d", "a">>, <<"c", "a">>>>,
      <<<<"S", "o", "u", "t", "h", " ", "K", "o", "r", "e", "a">>, <<"k", "r">>>>,
      <<<<"M", "e", "x", "i", "c", "o">>, <<"m", "x">>>>,
      <<<<"T", "h", "a", "i", "l", "a", "n", "d">>, <<"t", "h">>>>,
      <<<<"M", "a", "l", "a", "y", "s", "i", "a">>, <<"m", "y">>>>,
      <<<<"S", "a", "u", "d", "i", " ", "A", "r", "a", "b", "i", "a">>, <<"s", "a">>>>,
      <<<<"A", "u", "s", "t", "r", "a", "l", "i", "a">>, <<"a", "u">>>>,
      <<<<"S", "i", "n", "g", "a", "p", "o", "r", "e">>, <<"s", "g">>>>,
      <<<<"I", "t", "a", "l", "y">>, <<"i", "t">>>>,
      <<<<"R", "u", "s", "s", "i", "a">>, <<"r", "u">>>>,
      <<<<"B", "r", "a", "z", "i", "l">>, <<"b", "r">>>>,
      <<<<"S", "w", "i", "t", "z", "e", "r", "l", "a", "n", "d">>, <<"c", "h">>>>,
      <<<<"T", "a", "i", "w", "a", "n">>, <<"t", "w">>>> }

\* transform_for_upload.py: country_map
country_map ==
    {
      <<<<"U", "n", "i", "t", "e", "d", " ", "S", "t", "a", "t", "e", "s">>, <<"u", "s">>>>,
      <<<<"C", "h", "i", "n", "a">>, <<"c", "n">>>>,
      <<<<"U", "n", "i", "t", "e", "d", " ", "A", "r", "a", "b", " ", "E", "m", "i", "r", "a", "t", "e", "s">>, <<"a", "e">>>>,
      <<<<"J", "a", "p", "a", "n">>, <<"j", "p">>>>,
      <<<<"U", "n", "i", "t", "e", "d", " ", "K", "i", "n", "g", "d", "o", "m">>, <<"g", "b">>>>,
      <<<<"F", "r", "a", "n", "c", "e">>, <<"f", "r">>>>,
      <<<<"G", "e", "r", "m", "a", "n", "y">>, <<"d", "e">>>>,
      <<<<"S", "p", "a", "i", "n">>, <<"e", "s">>>>,
      <<<<"N", "e", "t", "h", "e", "r", "l", "a", "n", "d", "s">>, <<"n", "l">>>>,
      <<<<"T", "u", "r", "k", "e", "y">>, <<"t", "r">>>>,
      <<<<"I", "n", "d", "i", "a">>, <<"i", "n">>>>,
      <<<<"I", "n", "d", "o", "n", "e", "s", "i", "a">>, <<"i", "d">>>>,
      <<<<"C", "a", "n", "a", "d", "a">>, <<"c", "a">>>>,
      <<<<"S", "o", "u", "t", "h", " ", "K", "o", "r", "e", "a">>, <<"k", "r">>>>,
      <<<<"M", "e", "x", "i", "c", "o">>, <<"m", "x">>>>,
      <<<<"T", "h", "a", "i", "l", "a", "n", "d">>, <<"t", "h">>>>,
      <<<<"M", "a", "l", "a", "y", "s", "i", "a">>, <<"m", "y">>>>,
      <<<<"S", "a", "u", "d", "i", " ", "A", "r", "a", "b", "i", "a">>, <<"s", "a">>>>,
      <<<<"A", "u", "s", "t", "r", "a", "l", "i", "a">>, <<"a", "u">>>>,
      <<<<"S", "i", "n", "g", "a", "p", "o", "r", "e">>, <<"s", "g">>>>,
      <<<<"I", "t", "a", "l", "y">>, <<"i", "t">>>>,
      <<<<"R", "u", "s", "s", "i", "a">>, <<"r", "u">>>>,
      <<<<"B", "r", "a", "z", "i", "l">>, <<"b", "r">>>>,
      <<<<"S", "w", "i", "t", "z", "e", "r", "l", "a", "n", "d">>, <<"c", "h">>>>,
      <<<<"T", "a", "i", "w", "a", "n">>, <<"t", "w">>>> }

\* transform_data.py: the country written for a row of airports.csv or airlines.csv.
\* csv.DictReader hands the field over as the str it is in the file.
transform_data_country(country) == dict_get(country_to_code, country, slug(country))

\* The fields pandas.read_csv reads as a missing value (NaN) in a column of strs.
NaValues ==
    {
      <<>>,
      <<"#", "N", "/", "A">>,
      <<"#", "N", "/", "A", " ", "N", "/", "A">>,
      <<"#", "N", "A">>,
      <<"-", "1", ".", "#", "I", "N", "D">>,
      <<"-", "1", ".", "#", "Q", "N", "A", "N">>,
      <<"-", "N", "a", "N">>,
      <<"-", "n", "a", "n">>,
      <<"1", ".", "#", "I", "N", "D">>,
      <<"1", ".", "#", "Q", "N", "A", "N">>,
      <<"<", "N", "A", ">">>,
      <<"N", "/", "A">>,
      <<"N", "A">>,
      <<"N", "U", "L", "L">>,
      <<"N", "a", "N">>,
      <<"N", "o", "n", "e">>,
      <<"n", "/", "a">>,
      <<"n", "a", "n">>,
      <<"n", "u", "l", "l">> }

\* pandas: NaN or a str.
NaN == None

read_csv_field(field) == IF field \in NaValues THEN NaN ELSE Str(field)

\* Series.map(country_map): NaN for NaN and for a name that is no key.
series_map(cell, items) ==
    IF cell.is_none \/ ~\E kv \in items : kv[1] = cell.str THEN NaN
    ELSE Str((CHOOSE kv \in items : kv[1] = cell.str)[2])

\* Series.str.lower().str.replace(' ', '-'): NaN stays NaN.
series_slug(cell) == IF cell.is_none THEN NaN ELSE Str(slug(cell.str))

\* Series.fillna(other): the other cell where this one is NaN.
fillna(cell, other) == IF cell.is_none THEN other ELSE cell

\* DataFrame.to_csv writes NaN as the empty field.
to_csv_field(cell) == IF cell.is_none THEN <<>> ELSE cell.str

\* transform_for_upload.py: the country written for a row.
transform_for_upload_country(country) ==
    LET cell == read_csv_field(country)
    IN to_csv_field(fillna(series_map(cell, country_map), series_slug(cell)))

\* Characters of the country names that are drawn freely.
NameChars == {"N", "A", "a", " "}

\* The country names of the input rows: every key of the table, names that are
\* no key, and every name over NameChars up to MaxNameLen.
CountryNames ==
    {kv[1] : kv \in country_to_code}
        \cup { <<"A", "t", "l", "a", "n", "t", "i", "s">>,
               <<"N", "e", "w", " ", "Z", "e", "a", "l", "a", "n", "d">>,
               <<"j", "a", "p", "a", "n">>,
               <<"C", "z", "e", "c", "h", " ", "R", "e", "p", "u", "b", "l", "i", "c">> }
        \cup SeqsUpTo(NameChars, MaxNameLen)

Files == {"airports", "airlines"}

NotWritten == [f \in Files |-> None]

\* transform_data.py reaches the row of airports.csv (line 80) or airlines.csv (line 100).
transform_data(f) ==
    /\ out.data[f].is_none
    /\ out' = [out EXCEPT !.data[f] = Str(transform_data_country(row.country))]
    /\ UNCHANGED <<row, tenant_id, importVars, sinkVars, jsonVars>>

\* transform_for_upload.py transforms the frame of airports.csv (line 66) or
\* airlines.csv (line 78) and writes it.
transform_for_upload(f) ==
    /\ out.upload[f].is_none
    /\ out' = [out EXCEPT !.upload[f] = Str(transform_for_upload_country(row.country))]
    /\ UNCHANGED <<row, tenant_id, importVars, sinkVars, jsonVars>>

TransformInit ==
    /\ lookups = <<>>
    /\ tenant_id \in TenantIds
    /\ call = NoCall
    /\ rowsRead = 0
    /\ IdleSink /\ IdleJson
    /\ row \in [country : CountryNames]
    /\ out = [data |-> NotWritten, upload |-> NotWritten]

TransformNext ==
    \/ \E f \in Files : transform_data(f)
    \/ \E f \in Files : transform_for_upload(f)

TransformSpec == TransformInit /\ [][TransformNext]_vars

\* The country the claim gives a name: the code of the table, else the slug.
claimed_country(country) ==
    IF \E kv \in country_to_code : kv[1] = country
    THEN (CHOOSE kv \in country_to_code : kv[1] = country)[2]
    ELSE [i \in DOMAIN country |->
             IF country[i] = " " THEN "-" ELSE lower_char(country[i])]

\* C9: in both scripts, for airports and airlines, the country written is the
\* table's code for a name that is a key, else the name lowercased with hyphens
\* for spaces; the two scripts write the same country for the same row.
C9_CountryCodeOrSlug ==
    \A f \in Files :
        /\ ~out.data[f].is_none => out.data[f].str = claimed_country(row.country)
        /\ ~out.upload[f].is_none => out.upload[f].str = claimed_country(row.country)
        /\ (~out.data[f].is_none /\ ~out.upload[f].is_none)
              => out.data[f].str = out.upload[f].str


-----------------------------------------------------------------------------
(* Imports that raise *)

\* C11: an import call that raises, at open() or at any point of the scan, leaves
\* the accumulation exactly as it was before the call.
C11_RaisedImportKeepsAccumulation ==
    [][call'.op = "raised" => lookups' = lookups]_vars

\* After an earlier import, a call raised when it had already scanned a row that
\* gives a record.
C11_Witness ==
    /\ call.op = "raised"
    /\ call.before > 0
    /\ Len(lookups) = call.before
    /\ \/ call.routine = "import_zip_to_market" /\ zip_lookups(call.input) # <<>>
       \/ call.routine = "import_hospital_list" /\ hospital_lookups(call.input) # <<>>
       \/ call.routine = "import_hospital_systems" /\ system_lookups(call.input) # <<>>


=============================================================================
